---- MODULE Spec2Model ----
(***************************************************************************)
(* Model of src/index.js: the Express backend with the two pipelines       *)
(*   POST /upload-document  extract -> clean -> split -> embed -> upsert    *)
(*   POST /ask-question     embed -> query -> (retriever: embed -> query)   *)
(*                          -> prompt -> completion                         *)
(* A JavaScript string is a sequence of one-character strings. Every        *)
(* `await` of a handler is a point where other requests may run, so each    *)
(* handler is cut into one action per awaited call; the code between two    *)
(* awaits runs atomically (Node's single thread).                           *)
(* The collaborators (PDF extractor, text splitter, embedding provider,     *)
(* Pinecone index, chat model) are libraries/services outside src/: a call  *)
(* to one either throws or returns a value of its result type.              *)
(***************************************************************************)
EXTENDS Integers, Sequences, FiniteSets, TLC

VARIABLES clock, index, up, ask, nPc, nInput, nOutput, nAgain

vars == <<clock, index, up, ask, nPc, nInput, nOutput, nAgain>>

(***************************************************************************)
(* Bounds of the model.                                                    *)
(***************************************************************************)
MaxClock == 1
MaxChunks == 2
MaxLen == 4

(***************************************************************************)
(* Strings.                                                                *)
(***************************************************************************)
\* The characters JavaScript's \s and String.prototype.trim treat as
\* whitespace, as far as the model's alphabet has them.
Whitespace == {" ", "\n", "\r", "\t"}

Alphabet == {"a"} \cup Whitespace

RECURSIVE StringsUpTo(_)
StringsUpTo(n) ==
  IF n = 0 THEN {<<>>}
  ELSE LET shorter == StringsUpTo(n - 1)
       IN  shorter \cup {Append(s, c) : s \in {t \in shorter : Len(t) = n - 1}, c \in Alphabet}

RECURSIVE DropLeadingWs(_)
DropLeadingWs(s) ==
  IF s # <<>> /\ Head(s) \in Whitespace THEN DropLeadingWs(Tail(s)) ELSE s

RECURSIVE DropTrailingWs(_)
DropTrailingWs(s) ==
  IF s # <<>> /\ s[Len(s)] \in Whitespace
  THEN DropTrailingWs(SubSeq(s, 1, Len(s) - 1))
  ELSE s

\* .replace(/\s+/g, " "): every maximal run of whitespace becomes one space.
RECURSIVE ReplaceWsRuns(_)
ReplaceWsRuns(s) ==
  IF s = <<>> THEN <<>>
  ELSE IF Head(s) \in Whitespace
       THEN <<" ">> \o ReplaceWsRuns(DropLeadingWs(Tail(s)))
       ELSE <<Head(s)>> \o ReplaceWsRuns(Tail(s))

\* .replace(/(\r\n|\n|\r)/gm, " "): each newline (CRLF counted once) becomes
\* one space.
RECURSIVE ReplaceNewlines(_)
ReplaceNewlines(s) ==
  IF s = <<>> THEN <<>>
  ELSE IF Len(s) >= 2 /\ s[1] = "\r" /\ s[2] = "\n"
       THEN <<" ">> \o ReplaceNewlines(SubSeq(s, 3, Len(s)))
       ELSE IF Head(s) \in {"\n", "\r"}
            THEN <<" ">> \o ReplaceNewlines(Tail(s))
            ELSE <<Head(s)>> \o ReplaceNewlines(Tail(s))

\* .trim()
Trim(s) == DropTrailingWs(DropLeadingWs(s))

\* A cleanup that forgets the \s+ collapse (only newlines replaced, then trim).
CleanTextNoCollapse(s) == Trim(ReplaceNewlines(s))

\* fullText.replace(/\s+/g, " ").replace(/(\r\n|\n|\r)/gm, " ").trim()
CleanText(s) == Trim(ReplaceNewlines(ReplaceWsRuns(s)))

\* Array.prototype.join on an array of strings.
RECURSIVE Join(_, _)
Join(strs, sep) ==
  IF strs = <<>> THEN <<>>
  ELSE IF Len(strs) = 1 THEN strs[1]
       ELSE strs[1] \o sep \o Join(Tail(strs), sep)


(***************************************************************************)
(* Collaborators.                                                          *)
(***************************************************************************)
Uploads == {"u1", "u2"}
Asks == {"q1"}

\* What pdfExtract.extractBuffer can resolve to: data.pages, a list of pages,
\* each page's content a list of text items (item.str).
PdfPages ==
  { <<>>,                                \* no pages
    << <<>> >>,                          \* one page without text items
    << << <<" ">> >> >>,                 \* one page, one blank item
    << << <<"a", "b">> >> >>,            \* one page, item "ab"
    << << <<"a">> >>, <<>> >> }          \* page "a", then an empty page

\* The page test of the handler, taking every result as having pages.
HasPagesAlways(pages) == TRUE

\* data.pages && data.pages.length > 0
HasPages(pages) == Len(pages) > 0

\* data.pages.map(page => page.content.map(item => item.str).join(" ")).join("\n\n")
PagesText(pages) ==
  Join([p \in 1..Len(pages) |-> Join(pages[p], <<" ">>)], <<"\n", "\n">>)

\* The spans <<first, last>> of the non-empty contiguous slices of a text.
Spans(text) ==
  {<<i, j>> : i \in 1..Len(text), j \in 1..Len(text)} \ {<<i, j>> \in (1..Len(text)) \X (1..Len(text)) : j < i}

RECURSIVE SeqsUpTo(_, _)
SeqsUpTo(S, n) ==
  IF n = 0 THEN {<<>>}
  ELSE LET shorter == SeqsUpTo(S, n - 1)
       IN  shorter \cup {Append(s, x) : s \in {t \in shorter : Len(t) = n - 1}, x \in S}

\* A list of spans that walks a text of n characters: it starts at the first
\* character, ends at the last, every span starts and ends after the previous
\* one does, and leaves no gap (spans may overlap).
IsWindowing(w, n) ==
  /\ w # <<>>
  /\ w[1][1] = 1
  /\ w[Len(w)][2] = n
  /\ \A i \in 1..(Len(w) - 1) :
       /\ w[i + 1][1] > w[i][1]
       /\ w[i + 1][2] > w[i][2]
       /\ w[i + 1][1] <= w[i][2] + 1

\* What textSplitter.createDocuments([fullText]) can resolve to: the
\* pageContent of each document, in order.  The splitter is a library
\* (RecursiveCharacterTextSplitter, chunkSize 1000, chunkOverlap 200) whose
\* code is not part of the program; the model lets it return any walk of the
\* text in at most MaxChunks non-empty windows, so an empty text has no chunks.
SplitResults(text) ==
  IF text = <<>> THEN {<<>>}
  ELSE { [i \in 1..Len(w) |-> SubSeq(text, w[i][1], w[i][2])] :
           w \in {x \in SeqsUpTo(Spans(text), MaxChunks) : IsWindowing(x, Len(text))} }

\* The Embedding Provider maps a text to a vector; a vector is modelled with
\* one component.
Embed(text) == <<Len(text)>>

\* What embeddings.embedDocuments(chunkTexts) can resolve to: the vector of
\* each text in order; nothing in the handler fixes the length of the list.
EmbedResults(texts) ==
  { [i \in 1..n |-> IF i <= Len(texts) THEN Embed(texts[i]) ELSE <<0>>] :
      n \in 0..(Len(texts) + 1) }

\* `doc-${Date.now()}-${index}`
DocId(now, i) == "doc-" \o ToString(now) \o "-" \o ToString(i)

\* The values Date.now() can take over one synchronous docs.map of n calls:
\* the first call reads the clock, later calls never read less.
RECURSIVE Stamps(_, _)
Stamps(from, n) ==
  IF n = 0 THEN {<<>>}
  ELSE {<<from>> \o rest : rest \in UNION {Stamps(t, n - 1) : t \in from..MaxClock}}

\* docs.map((doc, index) => ({id, values: [], metadata: {pageContent}}))
UpsertRequests(docs, stamps) ==
  [i \in 1..Len(docs) |->
     [id |-> DocId(stamps[i], i - 1),
      values |-> <<>>,
      metadata |-> [pageContent |-> docs[i]]]]

\* chunkEmbeddings.forEach((embedding, index) =>
\*   { upsertRequests[index].values = embedding; })
\* (the caller has checked that every index is one of upsertRequests)
AssignEmbeddings(reqs, embs) ==
  [i \in 1..Len(reqs) |->
     IF i <= Len(embs) THEN [reqs[i] EXCEPT !.values = embs[i]] ELSE reqs[i]]

\* Vector Index upsert of one record: replaces the entry with the same id,
\* appends otherwise.
UpsertOne(idx, rec) ==
  IF \E k \in 1..Len(idx) : idx[k].id = rec.id
  THEN [k \in 1..Len(idx) |-> IF idx[k].id = rec.id THEN rec ELSE idx[k]]
  ELSE Append(idx, rec)

RECURSIVE Upsert(_, _)
Upsert(idx, batch) ==
  IF batch = <<>> THEN idx
  ELSE Upsert(UpsertOne(idx, Head(batch)), Tail(batch))

InitUpload ==
  [pc |-> "idle", nPages |-> -1, fullText |-> <<>>, docs |-> <<>>,
   upsertRequests |-> <<>>, chunkEmbeddings |-> <<>>, calls |-> <<>>,
   failed |-> "none", status |-> 0, body |-> [kind |-> "none", text |-> ""]]

\* catch (error) { res.status(500).json({error: "Error processing document: "
\*                                              + error.message}) }
\* The handler returns and the locals of its try block are gone.
UploadCatch(r, step, detail) ==
  [r EXCEPT !.pc = "done", !.failed = step, !.status = 500,
            !.docs = <<>>, !.upsertRequests = <<>>, !.chunkEmbeddings = <<>>,
            !.body = [kind |-> "error",
                      text |-> "Error processing document: " \o detail]]

(***************************************************************************)
(* POST /upload-document                                                   *)
(***************************************************************************)
\* The request arrives: 400 without a file, else extractBuffer is called.
UploadStart(u) ==
  /\ up[u].pc = "idle"
  /\ \E hasFile \in BOOLEAN :
       up' = [up EXCEPT ![u] =
                IF ~hasFile
                THEN [@ EXCEPT !.pc = "done", !.status = 400,
                               !.body = [kind |-> "text", text |-> "No document uploaded."]]
                ELSE [@ EXCEPT !.pc = "extract", !.calls = Append(@, "extract")]]
  /\ UNCHANGED <<clock, index, ask, nPc, nInput, nOutput, nAgain>>

\* extractBuffer rejects.
UploadExtractFail(u) ==
  /\ up[u].pc = "extract"
  /\ up' = [up EXCEPT ![u] = UploadCatch(@, "extract", "extract failed")]
  /\ UNCHANGED <<clock, index, ask, nPc, nInput, nOutput, nAgain>>

\* extractBuffer resolves: page check, text assembly and cleanup, then
\* createDocuments is called.
UploadExtractReturn(u) ==
  /\ up[u].pc = "extract"
  /\ \E pages \in PdfPages :
       up' = [up EXCEPT ![u] =
                IF HasPages(pages)
                THEN [@ EXCEPT !.pc = "split", !.nPages = Len(pages),
                               !.fullText = CleanText(PagesText(pages)),
                               !.calls = Append(@, "split")]
                ELSE UploadCatch([@ EXCEPT !.nPages = Len(pages)], "nopages",
                                 "No text found in PDF or PDF parsing failed.")]
  /\ UNCHANGED <<clock, index, ask, nPc, nInput, nOutput, nAgain>>

\* createDocuments rejects.
UploadSplitFail(u) ==
  /\ up[u].pc = "split"
  /\ up' = [up EXCEPT ![u] = UploadCatch(@, "split", "split failed")]
  /\ UNCHANGED <<clock, index, ask, nPc, nInput, nOutput, nAgain>>

\* createDocuments resolves: the upsert requests get their identifiers from
\* Date.now() and the index, then embedDocuments is called.
UploadSplitReturn(u) ==
  /\ up[u].pc = "split"
  /\ \E docs \in SplitResults(up[u].fullText) :
       \E stamps \in Stamps(clock, Len(docs)) :
         /\ up' = [up EXCEPT ![u] =
                     [@ EXCEPT !.pc = "embed", !.docs = docs,
                               !.upsertRequests = UpsertRequests(docs, stamps),
                               !.calls = Append(@, "embed")]]
         /\ clock' = IF stamps = <<>> THEN clock ELSE stamps[Len(stamps)]
  /\ UNCHANGED <<index, ask, nPc, nInput, nOutput, nAgain>>

\* embedDocuments rejects.
UploadEmbedFail(u) ==
  /\ up[u].pc = "embed"
  /\ up' = [up EXCEPT ![u] = UploadCatch(@, "embed", "embed failed")]
  /\ UNCHANGED <<clock, index, ask, nPc, nInput, nOutput, nAgain>>

\* embedDocuments resolves: the vectors are written into the requests by
\* position (an index past the requests is a TypeError), then upsert is called.
UploadEmbedReturn(u) ==
  /\ up[u].pc = "embed"
  /\ \E embs \in EmbedResults(up[u].docs) :
       up' = [up EXCEPT ![u] =
                IF Len(embs) > Len(@.upsertRequests)
                THEN UploadCatch([@ EXCEPT !.chunkEmbeddings = embs,
                                           !.upsertRequests = AssignEmbeddings(@, embs)],
                                 "assign",
                                 "Cannot set properties of undefined (setting 'values')")
                ELSE [@ EXCEPT !.pc = "upsert", !.chunkEmbeddings = embs,
                               !.upsertRequests = AssignEmbeddings(@, embs),
                               !.calls = Append(@, "upsert")]]
  /\ UNCHANGED <<clock, index, ask, nPc, nInput, nOutput, nAgain>>

\* pineconeIndex.upsert rejects.
UploadUpsertFail(u) ==
  /\ up[u].pc = "upsert"
  /\ up' = [up EXCEPT ![u] = UploadCatch(@, "upsert", "upsert failed")]
  /\ UNCHANGED <<clock, index, ask, nPc, nInput, nOutput, nAgain>>

\* pineconeIndex.upsert resolves: the batch is in the index, 200 is sent.
UploadUpsertReturn(u) ==
  /\ up[u].pc = "upsert"
  /\ index' = Upsert(index, up[u].upsertRequests)
  /\ up' = [up EXCEPT ![u] =
              [@ EXCEPT !.pc = "done", !.status = 200,
                        !.body = [kind |-> "message",
                                  text |-> "Document processed and indexed successfully."]]]
  /\ UNCHANGED <<clock, ask, nPc, nInput, nOutput, nAgain>>

\* A millisecond passes.
Tick ==
  /\ clock < MaxClock
  /\ clock' = clock + 1
  /\ UNCHANGED <<index, up, ask, nPc, nInput, nOutput, nAgain>>


(***************************************************************************)
(* POST /ask-question                                                      *)
(***************************************************************************)
TopK == 5

RetrieverK == 5

Fallback ==
  "I couldn't find relevant information in the document to answer your question. Please try rephrasing or provide more context."

\* req.body.question: absent, or a string.
Questions ==
  { [present |-> FALSE, str |-> <<>>],
    [present |-> TRUE, str |-> <<>>],
    [present |-> TRUE, str |-> <<" ">>],
    [present |-> TRUE, str |-> <<"a", "b">>] }

\* What the chat model followed by StringOutputParser can resolve to.
Completions == {"forty-two", "not enough information"}

\* !question : undefined and "" are falsy, every other string is truthy.
Falsy(q) == ~q.present \/ q.str = <<>>

\* Distance of a stored vector from the query vector (smaller = more similar).
Distance(q, v) ==
  IF q = <<>> \/ v = <<>> THEN 100
  ELSE IF q[1] >= v[1] THEN q[1] - v[1] ELSE v[1] - q[1]

\* Insert a match into a list ranked by descending score, after its equals.
RECURSIVE InsertRanked(_, _)
InsertRanked(ranked, m) ==
  IF ranked = <<>> THEN <<m>>
  ELSE IF Head(ranked).score >= m.score
       THEN <<Head(ranked)>> \o InsertRanked(Tail(ranked), m)
       ELSE <<m>> \o ranked

RECURSIVE Ranked(_, _)
Ranked(idx, q) ==
  IF idx = <<>> THEN <<>>
  ELSE LET e == idx[Len(idx)]
       IN  InsertRanked(Ranked(SubSeq(idx, 1, Len(idx) - 1), q),
                        [id |-> e.id, score |-> 0 - Distance(q, e.values),
                         metadata |-> e.metadata])

\* pineconeIndex.query({vector, topK, includeMetadata: true}).matches: the
\* topK entries most similar to the vector, best first.
Query(idx, q, k) ==
  LET r == Ranked(idx, q) IN SubSeq(r, 1, IF Len(r) < k THEN Len(r) ELSE k)

\* queryResponse.matches.map(match => new Document({pageContent:
\*   match.metadata.pageContent, metadata: {score: match.score}}))
ToDocuments(matches) ==
  [i \in 1..Len(matches) |->
     [pageContent |-> matches[i].metadata.pageContent,
      metadata |-> [score |-> matches[i].score]]]

\* The empty-result test of the handler, never taking the fallback branch.
NoRelevantDocsNever(docs) == FALSE

\* relevantDocs.length === 0
NoRelevantDocs(docs) == Len(docs) = 0

\* docsFromRetriever.map(doc => doc.pageContent).join("\n\n")
CombinedContext(docs) ==
  Join([i \in 1..Len(docs) |-> docs[i].pageContent], <<"\n", "\n">>)

InitAsk ==
  [pc |-> "idle", question |-> [present |-> FALSE, str |-> <<>>],
   embedded |-> FALSE, nMatches |-> -1, matches |-> <<>>, relevantDocs |-> <<>>,
   context |-> <<>>, prompt |-> [context |-> <<>>, question |-> <<>>],
   completion |-> "", calls |-> <<>>, failed |-> "none", status |-> 0,
   body |-> [kind |-> "none", text |-> ""]]

\* catch (error) of /ask-question that answers 200 with the error text.
AskCatchAnswers(r, step, detail) ==
  [r EXCEPT !.pc = "done", !.failed = step, !.status = 200,
            !.matches = <<>>, !.relevantDocs = <<>>, !.context = <<>>,
            !.prompt = [context |-> <<>>, question |-> <<>>],
            !.body = [kind |-> "answer", text |-> detail]]

\* catch (error) { res.status(500).json({error: "Error answering question: "
\*                                              + error.message}) }
\* The handler returns and the locals of its try block are gone.
AskCatch(r, step, detail) ==
  [r EXCEPT !.pc = "done", !.failed = step, !.status = 500,
            !.matches = <<>>, !.relevantDocs = <<>>, !.context = <<>>,
            !.prompt = [context |-> <<>>, question |-> <<>>],
            !.body = [kind |-> "error",
                      text |-> "Error answering question: " \o detail]]

\* The request arrives: 400 when !question, else embedQuery is called.
AskStart(a) ==
  /\ ask[a].pc = "idle"
  /\ \E q \in Questions :
       ask' = [ask EXCEPT ![a] =
                 IF Falsy(q)
                 THEN [@ EXCEPT !.pc = "done", !.question = q, !.status = 400,
                                !.body = [kind |-> "text", text |-> "Question is required."]]
                 ELSE [@ EXCEPT !.pc = "embedQuery", !.question = q,
                                !.calls = Append(@, "embedQuery")]]
  /\ UNCHANGED <<clock, index, up, nPc, nInput, nOutput, nAgain>>

\* embeddings.embedQuery(question) rejects.
AskEmbedFail(a) ==
  /\ ask[a].pc = "embedQuery"
  /\ ask' = [ask EXCEPT ![a] = AskCatch(@, "embedQuery", "embed failed")]
  /\ UNCHANGED <<clock, index, up, nPc, nInput, nOutput, nAgain>>

\* embedQuery resolves: pineconeIndex.query is called with the vector.
AskEmbedReturn(a) ==
  /\ ask[a].pc = "embedQuery"
  /\ ask' = [ask EXCEPT ![a] =
               [@ EXCEPT !.pc = "query", !.embedded = TRUE,
                         !.calls = Append(@, "query")]]
  /\ UNCHANGED <<clock, index, up, nPc, nInput, nOutput, nAgain>>

\* pineconeIndex.query rejects.
AskQueryFail(a) ==
  /\ ask[a].pc = "query"
  /\ ask' = [ask EXCEPT ![a] = AskCatch(@, "query", "query failed")]
  /\ UNCHANGED <<clock, index, up, nPc, nInput, nOutput, nAgain>>

\* pineconeIndex.query resolves: relevantDocs; the fallback answer when there
\* are none; else ragChain.invoke(question), whose first step is the
\* retriever, which embeds the question itself.
AskQueryReturn(a) ==
  /\ ask[a].pc = "query"
  /\ LET matches == Query(index, Embed(ask[a].question.str), TopK)
         docs == ToDocuments(matches)
     IN  ask' = [ask EXCEPT ![a] =
                   IF NoRelevantDocs(docs)
                   THEN [@ EXCEPT !.pc = "done", !.nMatches = Len(matches), !.matches = matches,
                                  !.relevantDocs = docs, !.status = 200,
                                  !.body = [kind |-> "answer", text |-> Fallback]]
                   ELSE [@ EXCEPT !.pc = "retrieverEmbed", !.nMatches = Len(matches),
                                  !.matches = matches, !.relevantDocs = docs,
                                  !.calls = Append(@, "retrieverEmbed")]]
  /\ UNCHANGED <<clock, index, up, nPc, nInput, nOutput, nAgain>>

\* The retriever's embedQuery rejects.
AskRetrieverEmbedFail(a) ==
  /\ ask[a].pc = "retrieverEmbed"
  /\ ask' = [ask EXCEPT ![a] = AskCatch(@, "retrieverEmbed", "embed failed")]
  /\ UNCHANGED <<clock, index, up, nPc, nInput, nOutput, nAgain>>

\* The retriever's embedQuery resolves: the retriever queries the index.
AskRetrieverEmbedReturn(a) ==
  /\ ask[a].pc = "retrieverEmbed"
  /\ ask' = [ask EXCEPT ![a] =
               [@ EXCEPT !.pc = "retrieverQuery",
                         !.calls = Append(@, "retrieverQuery")]]
  /\ UNCHANGED <<clock, index, up, nPc, nInput, nOutput, nAgain>>

\* The retriever's query rejects.
AskRetrieverQueryFail(a) ==
  /\ ask[a].pc = "retrieverQuery"
  /\ ask' = [ask EXCEPT ![a] = AskCatch(@, "retrieverQuery", "query failed")]
  /\ UNCHANGED <<clock, index, up, nPc, nInput, nOutput, nAgain>>

\* The retriever's query resolves: its documents are joined into the context,
\* the prompt is rendered and the chat model is called.
AskRetrieverQueryReturn(a) ==
  /\ ask[a].pc = "retrieverQuery"
  /\ LET docsFromRetriever ==
           ToDocuments(Query(index, Embed(ask[a].question.str), RetrieverK))
         combinedContext == CombinedContext(docsFromRetriever)
     IN  ask' = [ask EXCEPT ![a] =
                   [@ EXCEPT !.pc = "complete", !.context = combinedContext,
                             !.prompt = [context |-> combinedContext,
                                         question |-> ask[a].question.str],
                             !.calls = Append(@, "complete")]]
  /\ UNCHANGED <<clock, index, up, nPc, nInput, nOutput, nAgain>>

\* The chat model rejects.
AskCompleteFail(a) ==
  /\ ask[a].pc = "complete"
  /\ ask' = [ask EXCEPT ![a] = AskCatch(@, "complete", "completion failed")]
  /\ UNCHANGED <<clock, index, up, nPc, nInput, nOutput, nAgain>>

\* The chain resolves: res.status(200).json({answer}).
AskCompleteReturn(a) ==
  /\ ask[a].pc = "complete"
  /\ \E out \in Completions :
       ask' = [ask EXCEPT ![a] =
                 [@ EXCEPT !.pc = "done", !.completion = out, !.status = 200,
                           !.body = [kind |-> "answer", text |-> out]]]
  /\ UNCHANGED <<clock, index, up, nPc, nInput, nOutput, nAgain>>

(***************************************************************************)
(* The server.                                                             *)
(***************************************************************************)
Init ==
  /\ clock = 0
  /\ index = <<>>
  /\ up = [u \in Uploads |-> InitUpload]
  /\ ask = [a \in Asks |-> InitAsk]
  /\ nPc = "off"
  /\ nInput = <<>>
  /\ nOutput = <<>>
  /\ nAgain = <<>>

Next ==
  \/ \E u \in Uploads : UploadStart(u)
  \/ \E u \in Uploads : UploadExtractFail(u)
  \/ \E u \in Uploads : UploadExtractReturn(u)
  \/ \E u \in Uploads : UploadSplitFail(u)
  \/ \E u \in Uploads : UploadSplitReturn(u)
  \/ \E u \in Uploads : UploadEmbedFail(u)
  \/ \E u \in Uploads : UploadEmbedReturn(u)
  \/ \E u \in Uploads : UploadUpsertFail(u)
  \/ \E u \in Uploads : UploadUpsertReturn(u)
  \/ \E a \in Asks : AskStart(a)
  \/ \E a \in Asks : AskEmbedFail(a)
  \/ \E a \in Asks : AskEmbedReturn(a)
  \/ \E a \in Asks : AskQueryFail(a)
  \/ \E a \in Asks : AskQueryReturn(a)
  \/ \E a \in Asks : AskRetrieverEmbedFail(a)
  \/ \E a \in Asks : AskRetrieverEmbedReturn(a)
  \/ \E a \in Asks : AskRetrieverQueryFail(a)
  \/ \E a \in Asks : AskRetrieverQueryReturn(a)
  \/ \E a \in Asks : AskCompleteFail(a)
  \/ \E a \in Asks : AskCompleteReturn(a)
  \/ Tick

Spec == Init /\ [][Next]_vars

(***************************************************************************)
(* The text cleanup of the upload handler on its own, over every string of *)
(* the alphabet up to MaxLen characters.                                   *)
(***************************************************************************)
InitCleanup ==
  /\ clock = 0
  /\ index = <<>>
  /\ up = [u \in Uploads |-> InitUpload]
  /\ ask = [a \in Asks |-> InitAsk]
  /\ nPc = "input"
  /\ nInput \in StringsUpTo(MaxLen)
  /\ nOutput = <<>>
  /\ nAgain = <<>>

\* fullText = fullText.replace(...).replace(...).trim()
Cleanup ==
  /\ nPc = "input"
  /\ nOutput' = CleanText(nInput)
  /\ nPc' = "cleaned"
  /\ UNCHANGED <<clock, index, up, ask, nInput, nAgain>>

\* The cleanup applied to its own result.
CleanupAgain ==
  /\ nPc = "cleaned"
  /\ nAgain' = CleanText(nOutput)
  /\ nPc' = "again"
  /\ UNCHANGED <<clock, index, up, ask, nInput, nOutput>>

NextCleanup == Cleanup \/ CleanupAgain

SpecCleanup == InitCleanup /\ [][NextCleanup]_vars


(***************************************************************************)
(* Properties.                                                             *)
(***************************************************************************)
UploadSteps == <<"extract", "split", "embed", "upsert">>

IsPrefix(s, t) == Len(s) <= Len(t) /\ s = SubSeq(t, 1, Len(s))

Called(r, step) == \E i \in 1..Len(r.calls) : r.calls[i] = step

BatchIds(r) == {r.upsertRequests[i].id : i \in 1..Len(r.upsertRequests)}

IndexIds == {index[k].id : k \in 1..Len(index)}

\* The stored texts of a list of matches, joined by a blank line.
MatchedTexts(matches) ==
  Join([i \in 1..Len(matches) |-> matches[i].metadata.pageContent], <<"\n", "\n">>)

\* A question that is missing, empty or whitespace only.
Blank(q) == ~q.present \/ \A i \in 1..Len(q.str) : q.str[i] \in Whitespace

\* C1: when the Vector Index query of an /ask-question request returns no
\* matches, the request ends with 200 and the fixed fallback answer, and the
\* Completion Provider (and the retriever before it) is never called in it.
C1_NoMatchesFallback ==
  \A a \in Asks :
    ask[a].nMatches = 0 =>
      /\ ask[a].pc = "done"
      /\ ask[a].status = 200
      /\ ask[a].body = [kind |-> "answer", text |-> Fallback]
      /\ ask[a].calls = <<"embedQuery", "query">>

C1_Witness ==
  \E a \in Asks :
    ask[a].nMatches = 0 /\ ask[a].status = 200 /\ ask[a].body.text = Fallback

\* C2: when the query of an /ask-question request returned K >= 1 matches, the
\* context handed to the Completion Provider is the stored texts of exactly
\* those matches, joined by a blank line, in that order.
C2_ContextIsMatchedTexts ==
  \A a \in Asks :
    (ask[a].failed = "none" /\ Called(ask[a], "complete")) =>
      ask[a].prompt.context = MatchedTexts(ask[a].matches)

\* C3: two /upload-document requests never produce a common chunk identifier,
\* so once both have succeeded the (initially empty) index holds the chunks of
\* both.
C3_IdsNeverCollide ==
  \A u1 \in Uploads : \A u2 \in Uploads \ {u1} :
    (up[u1].status = 200 /\ up[u2].status = 200) =>
      /\ BatchIds(up[u1]) \cap BatchIds(up[u2]) = {}
      /\ Len(index) >= Len(up[u1].docs) + Len(up[u2].docs)

\* C4: a successful /upload-document request with N chunks has upserted N
\* entries with pairwise distinct identifiers, entry i carrying the text of
\* chunk i and the vector the Embedding Provider returned for chunk i (never
\* an empty one), whatever the length of the list the provider returned.
C4_BatchMatchesChunks ==
  \A u \in Uploads :
    up[u].status = 200 =>
      LET reqs == up[u].upsertRequests
      IN  /\ Len(reqs) = Len(up[u].docs)
          /\ \A i \in 1..Len(reqs) : \A j \in 1..Len(reqs) :
               i # j => reqs[i].id # reqs[j].id
          /\ \A i \in 1..Len(reqs) :
               /\ reqs[i].metadata.pageContent = up[u].docs[i]
               /\ i <= Len(up[u].chunkEmbeddings)
               /\ reqs[i].values = up[u].chunkEmbeddings[i]
               /\ reqs[i].values # <<>>

\* C5: an /ask-question request whose question is missing, empty or blank is
\* answered 400 without any call to a collaborator.
C5_BlankQuestionRejected ==
  \A a \in Asks :
    (ask[a].pc # "idle" /\ Blank(ask[a].question)) =>
      ask[a].status = 400 /\ ask[a].calls = <<>>

\* C6: an /upload-document request whose cleaned text is empty never calls the
\* Vector Index upsert and never answers 200.
C6_EmptyTextFails ==
  \A u \in Uploads :
    (up[u].nPages > 0 /\ up[u].fullText = <<>>) =>
      ~Called(up[u], "upsert") /\ up[u].status # 200

\* C7: an /upload-document request with a document runs extract, (split,)
\* embed, upsert in that order, each only after the one before succeeded; 200
\* is sent only after the upsert succeeded (its batch is in the index); a
\* failure of any step, zero extracted pages included, yields 500 with an
\* error body and no later step is called.
C7_UploadStepsInOrder ==
  \A u \in Uploads :
    LET r == up[u]
    IN  /\ IsPrefix(r.calls, UploadSteps)
        /\ r.status = 200 =>
             /\ r.pc = "done" /\ r.failed = "none" /\ r.calls = UploadSteps
             /\ BatchIds(r) \subseteq IndexIds
        /\ r.failed # "none" =>
             /\ r.pc = "done" /\ r.status = 500 /\ r.body.kind = "error"
             /\ r.calls # <<>>
             /\ r.calls[Len(r.calls)] =
                  CASE r.failed = "nopages" -> "extract"
                    [] r.failed = "assign" -> "embed"
                    [] OTHER -> r.failed
        /\ r.nPages = 0 => r.status = 500 /\ r.calls = <<"extract">>
        /\ r.pc \notin {"idle", "done"} => r.status = 0

C7_Witness ==
  \E u1 \in Uploads : \E u2 \in Uploads :
    /\ up[u1].status = 200 /\ up[u1].calls = UploadSteps /\ up[u1].docs # <<>>
    /\ up[u2].failed = "nopages" /\ up[u2].status = 500

\* C9: the cleaned text has no leading or trailing whitespace, no newline and
\* no two adjacent whitespace characters, and cleaning it again leaves it as
\* it is.
C9_CleanupNormalForm ==
  /\ nPc \in {"cleaned", "again"} =>
       /\ nOutput # <<>> => (nOutput[1] \notin Whitespace /\ nOutput[Len(nOutput)] \notin Whitespace)
       /\ \A i \in 1..Len(nOutput) : nOutput[i] \notin {"\n", "\r"}
       /\ \A i \in 1..(Len(nOutput) - 1) :
            ~(nOutput[i] \in Whitespace /\ nOutput[i + 1] \in Whitespace)
  /\ nPc = "again" => nAgain = nOutput

C9_Witness ==
  /\ nPc = "again"
  /\ nInput = <<"a", "\n", "\t", "a">>
  /\ nOutput = <<"a", " ", "a">>

\* C10: in an /ask-question request the Completion Provider is called only
\* after the question embedding and the index query of that request succeeded;
\* a failed embedding, query or completion call yields 500 with an error body
\* and no answer; a 200 that is not the fallback carries the provider's output
\* unchanged.
C10_AskStepsAndAnswer ==
  \A a \in Asks :
    LET r == ask[a]
    IN  /\ Called(r, "complete") =>
             /\ r.embedded /\ r.nMatches >= 0
             /\ IsPrefix(<<"embedQuery", "query">>, r.calls)
        /\ r.failed # "none" =>
             /\ r.pc = "done" /\ r.status = 500 /\ r.body.kind = "error"
             /\ r.calls # <<>> /\ r.calls[Len(r.calls)] = r.failed
        /\ (r.status = 200 /\ r.nMatches # 0) =>
             /\ r.failed = "none" /\ Called(r, "complete")
             /\ r.completion \in Completions
             /\ r.body = [kind |-> "answer", text |-> r.completion]

C10_Witness ==
  \E a \in Asks :
    /\ ask[a].status = 200 /\ ask[a].nMatches > 0
    /\ ask[a].completion \in Completions
    /\ ask[a].body.text = ask[a].completion

====
